---- MODULE Spec2Model ----
(***************************************************************************)
(* Model of Halide's Buffer / BufferContents (src/src/Buffer.cpp): the     *)
(* overflow-checked size arithmetic, the owning and the wrapping           *)
(* constructors, the reference-counted teardown (destroy<BufferContents>)  *)
(* and the public operations of the Buffer handle.                         *)
(*                                                                         *)
(* Integer widths are scaled down so that the model checker can enumerate  *)
(* them: size_t has SizeBits bits (64 in the build) and int / int32_t has  *)
(* IntBits bits (32 in the build).  The size limit (1UL << 31) - 1 of the  *)
(* constructor is the largest int32_t, and is modelled as the largest      *)
(* IntBits-bit signed value.  The properties are checked for more than     *)
(* one choice of the widths.                                               *)
(***************************************************************************)
EXTENDS Integers, Sequences, FiniteSets, TLC

\* ------------------------------------------------------------------ bounds
\* Width of size_t (scaled; 64 in the build).
SizeBits == 10
\* Width of int / int32_t (scaled; 32 in the build).
IntBits == 5
\* Number of Buffer handle variables of the client program.
MaxHandles == 2
\* Number of BufferContents objects the client keeps alive at once.
MaxObjects == 1

\* ------------------------------------------------------- program constants
\* The null pointer / null function pointer.
NULL == 0
\* Slack added to the byte count before calloc (size = size + 32).
Slack == 32
\* Alignment mask of the host pointer walk ((size_t)(buf.host) & 0x1f).
AlignMask == 31
\* Number of dimension slots of a buffer_t (extent[4], stride[4], min[4]).
NumDims == 4

\* ------------------------------------------------------------ integer types
RECURSIVE Pow2(_)
Pow2(n) == IF n = 0 THEN 1 ELSE 2 * Pow2(n - 1)

SizeMod == Pow2(SizeBits)
IntMod == Pow2(IntBits)
IntMax == Pow2(IntBits - 1) - 1
IntMin == 0 - Pow2(IntBits - 1)

\* (1UL << 31) - 1, the bound of user_assert(size < ((1UL << 31) - 1)).
SizeLimit == Pow2(IntBits - 1) - 1

\* Conversion of an int argument to size_t (modular, as the implicit
\* conversion at the checked_multiply_assert<size_t> call sites).
ToSizeT(i) == i % SizeMod

\* The value an int multiplication leaves when the mathematical product v
\* does not fit: two's complement wrap-around.
WrapInt(v) == ((v - IntMin) % IntMod) + IntMin

InIntRange(v) == v >= IntMin /\ v <= IntMax

\* ------------------------------------------------------- checked_multiply
\* The three parameters of checked_multiply are references.  Memory is a
\* function from cell names to values; pa, pc and pr name the cells bound to
\* a, c and result, so that result may alias an operand.  The statements are
\* executed in source order, each reading the memory its predecessor left.
\* Variant: the product is stored into result first and tested afterwards
\* ("result = a * c; if (result / a != c) return false;").
checked_multiply_early(mem, pa, pc, pr) ==
    IF mem[pa] = 0
    THEN [ok |-> TRUE, mem |-> [mem EXCEPT ![pr] = 0]]
    ELSE LET m1 == [mem EXCEPT ![pr] = (mem[pa] * mem[pc]) % SizeMod]
         IN  IF m1[pr] \div m1[pa] # m1[pc]
             THEN [ok |-> FALSE, mem |-> m1]
             ELSE [ok |-> TRUE, mem |-> m1]

checked_multiply(mem, pa, pc, pr) ==
    IF mem[pa] = 0
    THEN [ok |-> TRUE, mem |-> [mem EXCEPT ![pr] = 0]]
    ELSE LET t == (mem[pa] * mem[pc]) % SizeMod
         IN  IF t \div mem[pa] # mem[pc]
             THEN [ok |-> FALSE, mem |-> mem]
             ELSE [ok |-> TRUE, mem |-> [mem EXCEPT ![pr] = t]]

\* checked_multiply_assert: internal_assert(no_overflow) raises the internal
\* error when checked_multiply returned false; otherwise it returns true.
checked_multiply_assert(mem, pa, pc, pr) ==
    LET r == checked_multiply(mem, pa, pc, pr)
    IN  [ok |-> r.ok, mem |-> r.mem,
         raised |-> IF r.ok THEN "none" ELSE "internal_error"]

\* -------------------------------------------------------------------- Type
\* A Type is [bits, width]; bytes() rounds the bit width up to whole bytes.
TypeBytes(t) == (t.bits + 7) \div 8

UInt8 == [bits |-> 8, width |-> 1]
UInt16 == [bits |-> 16, width |-> 1]
UInt8x4 == [bits |-> 8, width |-> 4]

\* ------------------------------------------------------ JITCompiledModule
\* The three callbacks of a module: TRUE is a bound function pointer, FALSE
\* a null one.  A default-constructed module binds nothing.
NoModule == [copy_to_host |-> FALSE, copy_to_dev |-> FALSE, free_dev_buffer |-> FALSE]
FullModule == [copy_to_host |-> TRUE, copy_to_dev |-> TRUE, free_dev_buffer |-> TRUE]

\* --------------------------------------------------------- BufferContents
Zeros == <<0, 0, 0, 0>>

\* Variant: the pointer is rounded down to the alignment.
AlignWalk_down(p) == p - (p % (AlignMask + 1))

\* while ((size_t)(buf.host) & 0x1f) buf.host++;
RECURSIVE AlignWalk(_)
AlignWalk(p) == IF p % (AlignMask + 1) # 0 THEN AlignWalk(p + 1) ELSE p

\* name(n.empty() ? unique_name('b') : n)
ContentsName(n) == IF n = "" THEN "b$unique" ELSE n

\* One "if (d_size) checked_multiply_assert<size_t>(size, d_size, size);" of
\* the constructor.  acc is [size, raised]; the result cell is the first
\* operand's cell.
AccumulateDim(acc, d) ==
    IF acc.raised # "none" \/ d = 0
    THEN acc
    ELSE LET r == checked_multiply_assert([size |-> acc.size, arg |-> ToSizeT(d)],
                                          "size", "arg", "size")
         IN  [size |-> r.mem.size, raised |-> r.raised]

\* The running element count after the four dimension sizes.
ElementCount(x, y, z, w) ==
    AccumulateDim(AccumulateDim(AccumulateDim(AccumulateDim(
        [size |-> 1, raised |-> "none"], x), y), z), w)

\* The three int products stored into buf.stride[1..3].  A product that does
\* not fit an int is undefined behaviour; ovf is the outcome the build
\* produces: "wrap" (two's complement) or "trap" (overflow trapping).
StridesOverflow(x, y, z) ==
    ~(InIntRange(x * y) /\ InIntRange(WrapInt(x * y) * z))

StridesStored(x, y, z) == <<1, x, WrapInt(x * y), WrapInt(WrapInt(x * y) * z)>>

\* The descriptor part and the fields written after the allocation
\* (buf.dev = 0 ... buf.min[3] = 0) of the owning constructor.
FinishOwning(t, x, y, z, w, host, allocation, n, calls, ovf) ==
    IF StridesOverflow(x, y, z) /\ ovf = "trap"
    THEN [outcome |-> "signal: int overflow", obj |-> <<>>, calls |-> calls]
    ELSE [outcome |-> "ok",
          obj |-> << [buf |-> [host |-> host, dev |-> 0, elem_size |-> TypeBytes(t),
                               host_dirty |-> FALSE, dev_dirty |-> FALSE,
                               extent |-> <<x, y, z, w>>,
                               stride |-> StridesStored(x, y, z),
                               min |-> Zeros],
                      type |-> t, allocation |-> allocation, ref_count |-> 0,
                      name |-> ContentsName(n), source_module |-> NoModule] >>,
          calls |-> calls]

\* Variant: the limit itself is accepted.
SizeAccepted_le(size) == size <= SizeLimit

\* user_assert(size < ((1UL << 31) - 1))
SizeAccepted(size) == size < SizeLimit

\* BufferContents(Type t, int x_size, int y_size, int z_size, int w_size,
\*                uint8_t* data, const std::string &n).
\* callocRet is what calloc returns if it is reached.  The result is
\* [outcome, obj, calls]: obj is <<the object>> on success and <<>> when the
\* constructor raised; calls are the allocator calls made, in order.
BufferContents(t, x, y, z, w, data, n, callocRet, ovf) ==
    LET cnt == ElementCount(x, y, z, w)
    IN  IF t.width # 1
        THEN [outcome |-> "user_error: vector type", obj |-> <<>>, calls |-> <<>>]
        ELSE IF cnt.raised # "none"
        THEN [outcome |-> "internal_error: overflow", obj |-> <<>>, calls |-> <<>>]
        ELSE IF data = NULL
        THEN LET by == checked_multiply_assert(
                           [size |-> cnt.size, arg |-> ToSizeT(TypeBytes(t))],
                           "size", "arg", "size")
                 bytes == by.mem.size
                 padded == (bytes + Slack) % SizeMod
                 call == << [fn |-> "calloc", arg |-> padded, ptr |-> callocRet] >>
             IN  IF ~by.ok
                 THEN [outcome |-> "internal_error: overflow", obj |-> <<>>, calls |-> <<>>]
                 ELSE IF ~SizeAccepted(bytes)
                 THEN [outcome |-> "user_error: size", obj |-> <<>>, calls |-> <<>>]
                 ELSE IF callocRet = NULL
                 THEN [outcome |-> "user_error: out of memory", obj |-> <<>>, calls |-> call]
                 ELSE FinishOwning(t, x, y, z, w, AlignWalk(callocRet), callocRet, n, call, ovf)
        ELSE FinishOwning(t, x, y, z, w, data, NULL, n, <<>>, ovf)

\* BufferContents(Type t, const buffer_t *b, const std::string &n): the
\* descriptor is copied, nothing is allocated.
BufferContentsWrap(t, b, n) ==
    IF t.width # 1
    THEN [outcome |-> "user_error: vector type", obj |-> <<>>, calls |-> <<>>]
    ELSE [outcome |-> "ok",
          obj |-> << [buf |-> b, type |-> t, allocation |-> NULL, ref_count |-> 0,
                      name |-> ContentsName(n), source_module |-> NoModule] >>,
          calls |-> <<>>]

\* ---------------------------------------------------------------- state
Handles == 1 .. MaxHandles
ContentsIds == 1 .. MaxObjects

\* Addresses calloc may return: one already aligned, the others needing a
\* walk of up to 31 bytes; blocks of the largest accepted size do not overlap.
CallocAddrs == {64 + 65 * k : k \in 0 .. MaxObjects}
\* Pointers to memory of the caller.
ExtPtrs == {1000}
\* Nonzero device handles.
DevHandles == {7}

VARIABLES
    handles,    \* handles[h]: the contents object handle h refers to, 0 if none
    contents,   \* the live BufferContents objects, by id
    heap,       \* base addresses returned by calloc and not yet freed
    last        \* the most recent operation: its name, arguments, outcome,
                \* return value and the external calls it made, in order

vars == <<handles, contents, heap, last>>

Op(op, defined, args, outcome, ret, calls) ==
    [op |-> op, defined |-> defined, args |-> args, outcome |-> outcome,
     ret |-> ret, calls |-> calls]

CallCalloc(size, ret) == [fn |-> "calloc", arg |-> size, ptr |-> ret]
CallFree(p) == [fn |-> "free", arg |-> 0, ptr |-> p]
\* A callback of the source module, called with (user_context, &buf); arg is
\* the device handle the descriptor holds at the call.
CallCallback(fn, ctx, dev) == [fn |-> fn, arg |-> dev, ptr |-> ctx]

Init ==
    /\ handles = [h \in Handles |-> 0]
    /\ contents = <<>>
    /\ heap = {}
    /\ last = Op("init", FALSE, <<>>, "ok", <<>>, <<>>)

defined(h) == handles[h] # 0

Live == DOMAIN contents
\* The client has room for another object.
Room == Cardinality(Live) < MaxObjects
FreshId == CHOOSE c \in ContentsIds : c \notin Live /\ \A d \in ContentsIds : d < c => d \in Live

\* ------------------------------------------------------------- teardown
\* Variant: the host allocation is released before the device callback runs.
destroy_hostfirst(p) ==
    << CallFree(p.allocation) >>
    \o (IF p.source_module.free_dev_buffer
        THEN << CallCallback("free_dev_buffer", NULL, p.buf.dev) >>
        ELSE <<>>)

\* Variant: the descriptor's host pointer is what is released.
destroy_freehost(p) ==
    (IF p.source_module.free_dev_buffer
     THEN << CallCallback("free_dev_buffer", NULL, p.buf.dev) >>
     ELSE <<>>)
    \o << CallFree(p.buf.host) >>

\* destroy<BufferContents>(p): the calls it makes, in order.
destroy(p) ==
    (IF p.source_module.free_dev_buffer
     THEN << CallCallback("free_dev_buffer", NULL, p.buf.dev) >>
     ELSE <<>>)
    \o << CallFree(p.allocation) >>

\* The allocator's state after a sequence of calls: free(NULL) does nothing.
RECURSIVE HeapAfter(_, _)
HeapAfter(hp, calls) ==
    IF calls = <<>> THEN hp
    ELSE LET c == Head(calls)
         IN  HeapAfter(IF c.fn = "calloc" /\ c.ptr # NULL THEN hp \cup {c.ptr}
                       ELSE IF c.fn = "free" THEN hp \ {c.ptr}
                       ELSE hp,
                       Tail(calls))

\* ----------------------------------------------------------- construction
\* The handle takes the first reference of a freshly constructed object.
Install(h, obj) ==
    /\ handles' = [handles EXCEPT ![h] = FreshId]
    /\ contents' = [c \in Live \cup {FreshId} |->
                      IF c = FreshId THEN [obj EXCEPT !.ref_count = 1] ELSE contents[c]]

\* make_buffer_name(n, b)
make_buffer_name(n) == IF n = "" THEN "Halide::Buffer$entity" ELSE n

\* Buffer::Buffer(Type t, int x_size, int y_size, int z_size, int w_size,
\*                uint8_t* data, const std::string &name)
Construct(h, t, x, y, z, w, data, n, callocRet, ovf) ==
    /\ ~defined(h)
    /\ Room
    /\ callocRet \notin heap
    /\ LET r == BufferContents(t, x, y, z, w, data, make_buffer_name(n), callocRet, ovf)
       IN  /\ last' = Op("Buffer", FALSE, <<>>, r.outcome, <<>>, r.calls)
           /\ heap' = HeapAfter(heap, r.calls)
           /\ IF r.outcome = "ok"
              THEN Install(h, r.obj[1])
              ELSE UNCHANGED <<handles, contents>>

\* size_or_zero(sizes, index), index counted from 0
size_or_zero(sizes, index) == IF index < Len(sizes) THEN sizes[index + 1] ELSE 0

\* Buffer::Buffer(Type t, const std::vector<int32_t> &sizes, uint8_t* data,
\*                const std::string &name): the member initializer builds the
\* contents, then the body checks the number of sizes.  When the body raises,
\* the already constructed member is released, which destroys the object.
ConstructFromSizes(h, t, sizes, data, n, callocRet, ovf) ==
    /\ ~defined(h)
    /\ Room
    /\ callocRet \notin heap
    /\ LET r == BufferContents(t, size_or_zero(sizes, 0), size_or_zero(sizes, 1),
                               size_or_zero(sizes, 2), size_or_zero(sizes, 3),
                               data, make_buffer_name(n), callocRet, ovf)
       IN  IF r.outcome # "ok"
           THEN /\ last' = Op("Buffer(sizes)", FALSE, <<>>, r.outcome, <<>>, r.calls)
                /\ heap' = HeapAfter(heap, r.calls)
                /\ UNCHANGED <<handles, contents>>
           ELSE IF Len(sizes) <= NumDims
           THEN /\ last' = Op("Buffer(sizes)", FALSE, <<>>, "ok", <<>>, r.calls)
                /\ heap' = HeapAfter(heap, r.calls)
                /\ Install(h, r.obj[1])
           ELSE LET calls == r.calls \o destroy(r.obj[1])
                IN  /\ last' = Op("Buffer(sizes)", FALSE, <<>>,
                                  "user_error: dimensions", <<>>, calls)
                    /\ heap' = HeapAfter(heap, calls)
                    /\ UNCHANGED <<handles, contents>>

\* Buffer::Buffer(Type t, const buffer_t *buf, const std::string &name)
ConstructWrap(h, t, b, n) ==
    /\ ~defined(h)
    /\ Room
    /\ LET r == BufferContentsWrap(t, b, make_buffer_name(n))
       IN  /\ last' = Op("Buffer(buffer_t)", FALSE, <<>>, r.outcome, <<>>, r.calls)
           /\ UNCHANGED heap
           /\ IF r.outcome = "ok"
              THEN Install(h, r.obj[1])
              ELSE UNCHANGED <<handles, contents>>

\* ------------------------------------------------------ handle copy, release
\* Buffer g(h): the new handle shares the contents and takes a reference.
Copy(g, h) ==
    /\ g # h
    /\ ~defined(g)
    /\ handles' = [handles EXCEPT ![g] = handles[h]]
    /\ contents' = IF defined(h)
                   THEN [contents EXCEPT ![handles[h]].ref_count = @ + 1]
                   ELSE contents
    /\ last' = Op("Buffer(Buffer)", defined(h), <<>>, "ok", <<>>, <<>>)
    /\ UNCHANGED heap

\* ~Buffer(): the reference is given back; the object is destroyed when it
\* was the last one.
Release(h) ==
    /\ defined(h)
    /\ LET c == handles[h]
           p == contents[c]
       IN  /\ handles' = [handles EXCEPT ![h] = 0]
           /\ IF p.ref_count = 1
              THEN /\ contents' = [d \in Live \ {c} |-> contents[d]]
                   /\ last' = Op("~Buffer", TRUE, <<>>, "ok", <<>>, destroy(p))
                   /\ heap' = HeapAfter(heap, destroy(p))
              ELSE /\ contents' = [contents EXCEPT ![c].ref_count = @ - 1]
                   /\ last' = Op("~Buffer", TRUE, <<>>, "ok", <<>>, <<>>)
                   /\ UNCHANGED heap

\* ------------------------------------------------------ accessors, mutators
\* The outcome of a failed user_assert(defined()).
Undefined == "user_error: undefined buffer"
BadDim == "user_error: dimension index"
\* Reading a member through the null contents pointer is undefined behaviour:
\* the build either faults or goes on with whatever the read produced.
Fault == "signal: null dereference"

buf(h) == contents[handles[h]].buf

\* An operation that starts with user_assert(defined()) and then returns ret
\* without changing anything.
Read(op, h, args, ret) ==
    /\ last' = IF defined(h)
               THEN Op(op, TRUE, args, "ok", ret, <<>>)
               ELSE Op(op, FALSE, args, Undefined, <<>>, <<>>)
    /\ UNCHANGED <<handles, contents, heap>>

\* An accessor of one dimension slot: user_assert(defined()), then
\* user_assert(dim >= 0 && dim < 4).
ReadDim(op, h, dim, slots) ==
    /\ last' = IF ~defined(h) THEN Op(op, FALSE, <<dim>>, Undefined, <<>>, <<>>)
               ELSE IF ~(dim >= 0 /\ dim < NumDims) THEN Op(op, TRUE, <<dim>>, BadDim, <<>>, <<>>)
               ELSE Op(op, TRUE, <<dim>>, "ok", slots[dim + 1], <<>>)
    /\ UNCHANGED <<handles, contents, heap>>

\* An operation that starts with user_assert(defined()) and then assigns the
\* descriptor newbuf.
Write(op, h, args, newbuf) ==
    /\ last' = IF defined(h)
               THEN Op(op, TRUE, args, "ok", <<>>, <<>>)
               ELSE Op(op, FALSE, args, Undefined, <<>>, <<>>)
    /\ contents' = IF defined(h)
                   THEN [contents EXCEPT ![handles[h]].buf = newbuf]
                   ELSE contents
    /\ UNCHANGED <<handles, heap>>

host_ptr(h) == Read("host_ptr", h, <<>>, buf(h).host)

raw_buffer(h) == Read("raw_buffer", h, <<>>, handles[h])

device_handle(h) == Read("device_handle", h, <<>>, buf(h).dev)

host_dirty(h) == Read("host_dirty", h, <<>>, buf(h).host_dirty)

set_host_dirty(h, dirty) ==
    Write("set_host_dirty", h, <<dirty>>, [buf(h) EXCEPT !.host_dirty = dirty])

device_dirty(h) == Read("device_dirty", h, <<>>, buf(h).dev_dirty)

set_device_dirty(h, dirty) ==
    Write("set_device_dirty", h, <<dirty>>, [buf(h) EXCEPT !.host_dirty = dirty])

\* Variant: every nonzero extent is counted.
FirstZero_count(ext, i) == Cardinality({j \in 1 .. NumDims : ext[j] # 0})

\* The value of the loop of Buffer::dimensions over extent(0..3).
RECURSIVE FirstZero(_, _)
FirstZero(ext, i) ==
    IF i = NumDims THEN NumDims
    ELSE IF ext[i + 1] = 0 THEN i
    ELSE FirstZero(ext, i + 1)

\* On an undefined handle the first extent(0) raises.
dimensions(h) == Read("dimensions", h, <<>>, FirstZero(buf(h).extent, 0))

extent(h, dim) == ReadDim("extent", h, dim, buf(h).extent)

stride(h, dim) == ReadDim("stride", h, dim, buf(h).stride)

min(h, dim) == ReadDim("min", h, dim, buf(h).min)

set_min(h, m) == Write("set_min", h, <<m>>, [buf(h) EXCEPT !.min = m])

type(h) == Read("type", h, <<>>, contents[handles[h]].type)

\* same_as and defined compare or test the contents pointer only.
same_as(h, g) ==
    /\ last' = Op("same_as", defined(h), <<>>, "ok", handles[h] = handles[g], <<>>)
    /\ UNCHANGED <<handles, contents, heap>>

is_defined(h) ==
    /\ last' = Op("defined", defined(h), <<>>, "ok", defined(h), <<>>)
    /\ UNCHANGED <<handles, contents, heap>>

\* Buffer::name returns contents.ptr->name with no check.
name(h, ub) ==
    /\ ub \in {Fault, "ok"}
    /\ last' = IF defined(h)
               THEN Op("name", TRUE, <<>>, "ok", contents[handles[h]].name, <<>>)
               ELSE Op("name", FALSE, <<>>, ub, <<>>, <<>>)
    /\ UNCHANGED <<handles, contents, heap>>

\* Argument(name(), true, type()): the two calls are evaluated in either
\* order; type() checks the handle, name() does not.
Argument(h, ub) ==
    /\ ub \in {Fault, "ok"}
    /\ last' = IF defined(h)
               THEN Op("Argument", TRUE, <<>>, "ok",
                       <<contents[handles[h]].name, TRUE, contents[handles[h]].type>>, <<>>)
               ELSE Op("Argument", FALSE, <<>>, IF ub = "ok" THEN Undefined ELSE ub, <<>>, <<>>)
    /\ UNCHANGED <<handles, contents, heap>>

set_source_module(h, module) ==
    /\ last' = IF defined(h)
               THEN Op("set_source_module", TRUE, <<>>, "ok", <<>>, <<>>)
               ELSE Op("set_source_module", FALSE, <<>>, Undefined, <<>>, <<>>)
    /\ contents' = IF defined(h)
                   THEN [contents EXCEPT ![handles[h]].source_module = module]
                   ELSE contents
    /\ UNCHANGED <<handles, heap>>

source_module(h) == Read("source_module", h, <<>>, contents[handles[h]].source_module)

\* ---------------------------------------------------------- device operations
\* What the callbacks of a source module do to the descriptor they are given.
Callback(fn, b, d) ==
    CASE fn = "copy_to_host" -> b
      [] fn = "copy_to_dev" -> [b EXCEPT !.dev = IF @ = 0 THEN d ELSE @]
      [] fn = "free_dev_buffer" -> [b EXCEPT !.dev = 0]

\* copy_to_host, copy_to_dev and free_dev_buffer share one shape: read the
\* callback from contents.ptr->source_module with no check and, when it is
\* bound, call it with (NULL, raw_buffer()).  On an undefined handle the read
\* is through the null pointer: the build faults, or reads a null callback
\* (nothing happens), or reads a non-null one and raw_buffer() raises.
DeviceOp(fn, h, d, ub) ==
    /\ ub \in {Fault, "ok", Undefined}
    /\ IF defined(h)
       THEN IF contents[handles[h]].source_module[fn]
            THEN /\ last' = Op(fn, TRUE, <<>>, "ok", <<>>,
                               << CallCallback(fn, NULL, buf(h).dev) >>)
                 /\ contents' = [contents EXCEPT ![handles[h]].buf = Callback(fn, @, d)]
            ELSE /\ last' = Op(fn, TRUE, <<>>, "ok", <<>>, <<>>)
                 /\ UNCHANGED contents
       ELSE /\ last' = Op(fn, FALSE, <<>>, ub, <<>>, <<>>)
            /\ UNCHANGED contents
    /\ UNCHANGED <<handles, heap>>

copy_to_host(h, ub) == \E d \in DevHandles : DeviceOp("copy_to_host", h, d, ub)

copy_to_dev(h, d, ub) == DeviceOp("copy_to_dev", h, d, ub)

free_dev_buffer(h, ub) == \E d \in DevHandles : DeviceOp("free_dev_buffer", h, d, ub)

\* ------------------------------------------------------------------ inputs
Modules == {NoModule, FullModule, [FullModule EXCEPT !.free_dev_buffer = FALSE]}

\* calloc as a first-fit allocator: the lowest free address, or failure.
FirstFit == {NULL} \cup
            {a \in CallocAddrs : a \notin heap /\ \A b \in CallocAddrs : b < a => b \in heap}

\* Descriptors a client hands to the wrapping constructor.
WrapDescs ==
    {[host |-> p, dev |-> d, elem_size |-> 1, host_dirty |-> FALSE, dev_dirty |-> FALSE,
      extent |-> <<2, 3, 0, 0>>, stride |-> <<1, 2, 6, 0>>, min |-> Zeros] :
        p \in ExtPtrs, d \in DevHandles}

\* Size lists for the size-list constructor: short, too long, and too long
\* with leading entries that overflow the element count.
SizeLists == {<<2, 3>>, <<1, 1, 1, 1, 1>>, <<IntMax, IntMax, IntMax, IntMax, 1>>}

DataPtrs == {NULL} \cup ExtPtrs

\* Dimension sizes for the exhaustive constructor runs: negative, zero,
\* small, around the size limit, and the largest int.
WideSizes == {-1, 0, 1, 2, 3, 5, 7, IntMax}

DimArgs == {-1, 0, 3, 4}

Mins == {<<1, 2, 3, 4>>}

AllTypes == {UInt8, UInt16, UInt8x4}

Defined == {h \in Handles : defined(h)}

\* What reading through the null contents pointer may lead to, per operation.
UBName(h) == IF defined(h) THEN {"ok"} ELSE {Fault, "ok"}
UBDevice(h) == IF defined(h) THEN {"ok"} ELSE {Fault, "ok", Undefined}

\* ------------------------------------------------- lifecycle specification
\* A client that constructs, shares, binds a source module, runs the device
\* operations on its buffers and drops its handles.
DoConstruct ==
    \E h \in Handles, data \in DataPtrs, a \in FirstFit :
        Construct(h, UInt8, 2, 3, 0, 0, data, "img", a, "wrap")

DoConstructFromSizes ==
    \E h \in Handles, sizes \in SizeLists, data \in DataPtrs, a \in FirstFit :
        ConstructFromSizes(h, UInt8, sizes, data, "img", a, "wrap")

DoConstructWrap ==
    \E h \in Handles, b \in WrapDescs : ConstructWrap(h, UInt8, b, "img")

DoCopy == \E g \in Handles, h \in Defined : Copy(g, h)

DoRelease == \E h \in Handles : Release(h)

DoSetSourceModule == \E h \in Defined, m \in Modules : set_source_module(h, m)

DoCopyToHost == \E h \in Defined : copy_to_host(h, "ok")

DoCopyToDev == \E h \in Defined, d \in DevHandles : copy_to_dev(h, d, "ok")

DoFreeDevBuffer == \E h \in Defined : free_dev_buffer(h, "ok")

Next ==
    \/ DoConstruct
    \/ DoConstructFromSizes
    \/ DoConstructWrap
    \/ DoCopy
    \/ DoRelease
    \/ DoSetSourceModule
    \/ DoCopyToHost
    \/ DoCopyToDev
    \/ DoFreeDevBuffer

Spec == Init /\ [][Next]_vars

\* ------------------------------------------------------- API specification
\* Every public operation of the handle, on defined and on undefined
\* handles, around one buffer that is constructed, shared and dropped.
ApiConstruct ==
    /\ \E h \in Handles, data \in DataPtrs, a \in FirstFit :
          Construct(h, UInt8, 2, 3, 0, 0, data, "img", a, "wrap")
ApiCopy == \E g, h \in Handles : Copy(g, h)
ApiHostPtr == \E h \in Handles : host_ptr(h)
ApiRawBuffer == \E h \in Handles : raw_buffer(h)
ApiDeviceHandle == \E h \in Handles : device_handle(h)
ApiHostDirty == \E h \in Handles : host_dirty(h)
ApiSetHostDirty == \E h \in Handles, b \in BOOLEAN : set_host_dirty(h, b)
ApiDeviceDirty == \E h \in Handles : device_dirty(h)
ApiSetDeviceDirty == \E h \in Handles, b \in BOOLEAN : set_device_dirty(h, b)
ApiDimensions == \E h \in Handles : dimensions(h)
ApiExtent == \E h \in Handles, dim \in DimArgs : extent(h, dim)
ApiStride == \E h \in Handles, dim \in DimArgs : stride(h, dim)
ApiMin == \E h \in Handles, dim \in DimArgs : min(h, dim)
ApiSetMin == \E h \in Handles, m \in Mins : set_min(h, m)
ApiType == \E h \in Handles : type(h)
ApiSameAs == \E h, g \in Handles : same_as(h, g)
ApiDefined == \E h \in Handles : is_defined(h)
ApiName == \E h \in Handles : \E ub \in UBName(h) : name(h, ub)
ApiArgument == \E h \in Handles : \E ub \in UBName(h) : Argument(h, ub)
ApiSetSourceModule == \E h \in Handles : set_source_module(h, FullModule)
ApiSourceModule == \E h \in Handles : source_module(h)
ApiCopyToHost == \E h \in Handles : \E ub \in UBDevice(h) : copy_to_host(h, ub)
ApiCopyToDev ==
    \E h \in Handles, d \in DevHandles : \E ub \in UBDevice(h) : copy_to_dev(h, d, ub)
ApiFreeDevBuffer == \E h \in Handles : \E ub \in UBDevice(h) : free_dev_buffer(h, ub)

NextAPI ==
    \/ ApiConstruct
    \/ ApiCopy
    \/ DoRelease
    \/ ApiHostPtr
    \/ ApiRawBuffer
    \/ ApiDeviceHandle
    \/ ApiHostDirty
    \/ ApiSetHostDirty
    \/ ApiDeviceDirty
    \/ ApiSetDeviceDirty
    \/ ApiDimensions
    \/ ApiExtent
    \/ ApiStride
    \/ ApiMin
    \/ ApiSetMin
    \/ ApiType
    \/ ApiSameAs
    \/ ApiDefined
    \/ ApiName
    \/ ApiArgument
    \/ ApiSetSourceModule
    \/ ApiSourceModule
    \/ ApiCopyToHost
    \/ ApiCopyToDev
    \/ ApiFreeDevBuffer

SpecAPI == Init /\ [][NextAPI]_vars

\* ------------------------------------------------ constructor specification
\* One construction per behaviour: the initial state holds the arguments of
\* a pending constructor call (and what calloc and the build will do), the
\* call is made, and the buffer, if there is one, is dropped again.
Pending(t, x, y, z, w, data, a, ovf) ==
    Op("Buffer: call", FALSE, <<t, <<x, y, z, w>>, data, a, ovf>>, "pending", <<>>, <<>>)

InitCtor ==
    /\ handles = [h \in Handles |-> 0]
    /\ contents = <<>>
    /\ heap = {}
    /\ \E t \in AllTypes, x, y, z, w \in WideSizes, data \in DataPtrs,
          a \in {NULL} \cup CallocAddrs, ovf \in {"wrap", "trap"} :
          last = Pending(t, x, y, z, w, data, a, ovf)

ConstructPending ==
    /\ last.outcome = "pending"
    /\ LET t == last.args[1]
           sz == last.args[2]
       IN  Construct(1, t, sz[1], sz[2], sz[3], sz[4], last.args[3], "",
                     last.args[4], last.args[5])

NextCtor ==
    \/ ConstructPending
    \/ DoRelease

SpecCtor == InitCtor /\ [][NextCtor]_vars

\* ------------------------------------------- checked_multiply specification
\* Second operands: zero, one, small, around the square root of the range,
\* and the largest values.
MulOperands == {0, 1, 2, 3, Pow2(SizeBits \div 2) - 1, Pow2(SizeBits \div 2),
                Pow2(SizeBits \div 2) + 1, SizeMod \div 2, SizeMod - 2, SizeMod - 1}

\* The initial state holds the operands of a pending call
\* checked_multiply_assert(a, c, result); alias tells whether result is bound
\* to the variable of a (as in the constructor) or to its own variable, which
\* holds r0.
InitMul ==
    /\ handles = [h \in Handles |-> 0]
    /\ contents = <<>>
    /\ heap = {}
    /\ \E a \in 0 .. SizeMod - 1, c \in MulOperands, alias \in BOOLEAN :
          last = Op("checked_multiply: call", FALSE,
                    <<a, c, IF alias THEN a ELSE SizeMod - 3, alias>>, "pending", <<>>, <<>>)

\* The call: ret is <<the value returned, the result variable afterwards>>.
CallCheckedMultiply ==
    /\ last.op = "checked_multiply: call"
    /\ LET mem == [a |-> last.args[1], c |-> last.args[2], r |-> last.args[3]]
           pr == IF last.args[4] THEN "a" ELSE "r"
           res == checked_multiply_assert(mem, "a", "c", pr)
       IN  last' = Op("checked_multiply", FALSE, last.args, res.raised,
                      <<res.ok, res.mem[pr]>>, <<>>)
    /\ UNCHANGED <<handles, contents, heap>>

NextMul == CallCheckedMultiply

SpecMul == InitMul /\ [][NextMul]_vars

\* ================================================================== claims
\* Helpers of the statements below: exact arithmetic, independent of the
\* code's modular arithmetic.  SatMul is the mathematical product, capped at
\* SizeMod (every value >= SizeMod stands for "does not fit size_t").
SatMul(a, b) == IF a >= SizeMod \/ b >= SizeMod \/ a * b >= SizeMod THEN SizeMod ELSE a * b

\* The factor a dimension size contributes: absent when zero.
DimFactor(d) == IF d = 0 THEN 1 ELSE ToSizeT(d)

\* Product of the nonzero dimension sizes times the element size.
ExactBytes(t, sz) ==
    SatMul(SatMul(SatMul(SatMul(SatMul(1, DimFactor(sz[1])), DimFactor(sz[2])),
                         DimFactor(sz[3])), DimFactor(sz[4])), TypeBytes(t))

\* Number of leading nonzero sizes.
LeadingNonzero(sz) == Cardinality({i \in 1 .. NumDims : \A j \in 1 .. i : sz[j] # 0})

CallsOf(calls, fn) == {i \in DOMAIN calls : calls[i].fn = fn}

\* A step that drops the last handle h of an object.
LastRelease(h) ==
    /\ defined(h)
    /\ contents[handles[h]].ref_count = 1
    /\ handles'[h] = 0
    /\ last'.op = "~Buffer"

\* ---- C1: when the last handle of an object is released while a free-device
\* callback is bound and the descriptor's device handle is nonzero, the
\* callback is invoked exactly once, with a null context and that
\* descriptor, before the host allocation is released, and no callback runs
\* after the host release.
C1_DeviceFreeBeforeHostFree ==
    [][\A h \in Handles :
         (/\ LastRelease(h)
          /\ contents[handles[h]].source_module.free_dev_buffer
          /\ contents[handles[h]].buf.dev # 0)
         => LET calls == last'.calls
                p == contents[handles[h]]
            IN  /\ Cardinality(CallsOf(calls, "free_dev_buffer")) = 1
                /\ Cardinality(CallsOf(calls, "free")) = 1
                /\ \A i \in CallsOf(calls, "free_dev_buffer") :
                      /\ calls[i].ptr = NULL
                      /\ calls[i].arg = p.buf.dev
                      /\ \A j \in CallsOf(calls, "free") : i < j
                /\ \A j \in CallsOf(calls, "free") :
                      \A i \in DOMAIN calls : i > j => calls[i].fn = "free"
      ]_vars

\* A teardown of a self-allocated buffer with a live device allocation has
\* just run.
C1_Witness ==
    /\ last.op = "~Buffer"
    /\ Len(last.calls) = 2
    /\ last.calls[1].fn = "free_dev_buffer"
    /\ last.calls[1].arg # 0
    /\ last.calls[2].fn = "free"
    /\ last.calls[2].ptr # NULL

\* ---- C2: teardown never invokes the free-device callback on a descriptor
\* whose device handle is 0.
C2_TeardownSkipsZeroHandle ==
    last.op = "~Buffer" =>
        \A i \in CallsOf(last.calls, "free_dev_buffer") : last.calls[i].arg # 0

\* ---- C3: each dirty-flag setter writes its own flag and leaves the other
\* one as it was.
C3_SettersWriteOwnFlag ==
    [][\A h \in Handles, b \in BOOLEAN :
         /\ (set_host_dirty(h, b) /\ defined(h))
               => /\ buf(h)'.host_dirty = b
                  /\ buf(h)'.dev_dirty = buf(h).dev_dirty
         /\ (set_device_dirty(h, b) /\ defined(h))
               => /\ buf(h)'.dev_dirty = b
                  /\ buf(h)'.host_dirty = buf(h).host_dirty
      ]_vars

\* ---- C4: every operation other than defined() and same_as() fails with the
\* undefined-buffer error when the handle holds no contents.
CheckedOps ==
    {"host_ptr", "raw_buffer", "device_handle", "host_dirty", "set_host_dirty",
     "device_dirty", "set_device_dirty", "dimensions", "extent", "stride", "min",
     "set_min", "type", "name", "Argument", "set_source_module", "source_module",
     "copy_to_host", "copy_to_dev", "free_dev_buffer"}

C4_UndefinedHandleFails ==
    (last.op \in CheckedOps /\ ~last.defined) => last.outcome = Undefined

\* ---- C5: an owning construction without an external pointer whose size
\* computation overflows size_t, or whose byte count is at or above the
\* limit, fails before calloc is reached; a self-allocated buffer that was
\* constructed has a byte count below the limit.
C5_OversizeFailsBeforeCalloc ==
    [][(last.outcome = "pending" /\ last'.op = "Buffer" /\ last.args[3] = NULL)
         => LET bytes == ExactBytes(last.args[1], last.args[2])
            IN  /\ bytes >= SizeLimit
                     => /\ last'.outcome # "ok"
                        /\ last'.calls = <<>>
                        /\ heap' = heap
                        /\ contents' = contents
                /\ last'.outcome = "ok"
                     => /\ bytes < SizeLimit
                        /\ last'.calls = << CallCalloc(bytes + Slack, last.args[4]) >>
      ]_vars

\* An oversize request was rejected with nothing allocated.
C5_Witness ==
    /\ last.op = "Buffer"
    /\ last.outcome = "user_error: size"
    /\ last.calls = <<>>
    /\ heap = {}

\* ---- C6: a size list of more than 4 entries is rejected with no contents
\* object created and no host memory allocated.
C6_TooManySizesAllocatesNothing ==
    (last.op = "Buffer(sizes)" /\ last.outcome = "user_error: dimensions")
        => last.calls = <<>>

\* ---- C7: a fresh owning buffer of a unit-lane type with sizes >= 0 and a
\* byte count below the limit has extent = sizes, min = 0, strides
\* (1, x, x*y, x*y*z) as exact products, device handle 0, clean dirty flags,
\* and dimensions() equal to the number of leading nonzero sizes.
C7_FreshShape ==
    [][(/\ last.outcome = "pending" /\ last'.op = "Buffer"
        /\ last.args[3] = NULL /\ last.args[4] # NULL
        /\ last.args[1].width = 1
        /\ \A i \in 1 .. NumDims : last.args[2][i] >= 0
        /\ ExactBytes(last.args[1], last.args[2]) < SizeLimit)
         => /\ last'.outcome = "ok"
            /\ defined(1)'
            /\ LET sz == last.args[2]
                   b == buf(1)'
               IN  /\ b.extent = sz
                   /\ b.min = <<0, 0, 0, 0>>
                   /\ b.stride = <<1, sz[1], sz[1] * sz[2], sz[1] * sz[2] * sz[3]>>
                   /\ \A i \in 2 .. NumDims : b.stride[i] = b.stride[i - 1] * b.extent[i - 1]
                   /\ b.dev = 0
                   /\ ~b.host_dirty /\ ~b.dev_dirty
                   /\ b.elem_size = TypeBytes(last.args[1])
                   /\ FirstZero(b.extent, 0) = LeadingNonzero(sz)
      ]_vars

\* A self-allocated buffer whose sizes have a zero followed by a nonzero one.
C7_Witness ==
    /\ last.op = "Buffer"
    /\ defined(1)
    /\ contents[handles[1]].allocation # NULL
    /\ buf(1).extent[1] # 0
    /\ buf(1).extent[2] = 0
    /\ buf(1).extent[3] # 0

\* ---- C8: memory of the caller is never freed.  A buffer around an external
\* pointer or a wrapped descriptor owns no allocation; the only pointers
\* passed to free are allocation bases obtained from calloc, each once, when
\* the object that owns it is destroyed.
C8_Owned == {contents[c].allocation : c \in Live} \ {NULL}

C8_Inv ==
    /\ heap = C8_Owned
    /\ \A c \in Live : contents[c].buf.host \in ExtPtrs => contents[c].allocation = NULL
    /\ \A c, d \in Live :
          (c # d /\ contents[c].allocation # NULL)
              => contents[c].allocation # contents[d].allocation

C8_Step ==
    LET calls == last'.calls
    IN  /\ \A i \in CallsOf(calls, "free") :
              calls[i].ptr # NULL
                 => /\ calls[i].ptr \notin ExtPtrs
                    /\ \/ calls[i].ptr \in heap
                       \/ \E j \in CallsOf(calls, "calloc") : j < i /\ calls[j].ptr = calls[i].ptr
                    /\ \A k \in CallsOf(calls, "free") : calls[k].ptr = calls[i].ptr => k = i
                    /\ calls[i].ptr \notin heap'
        /\ \A h \in Handles :
              (LastRelease(h) /\ contents[handles[h]].allocation = NULL)
                 => /\ heap' = heap
                    /\ \A i \in CallsOf(calls, "free") : calls[i].ptr = NULL
        /\ \A h \in Handles :
              (/\ ~defined(h) /\ handles'[h] # 0 /\ handles'[h] \notin Live
               /\ contents'[handles'[h]].buf.host \in ExtPtrs)
                 => /\ CallsOf(calls, "calloc") = {}
                    /\ contents'[handles'[h]].allocation = NULL
                    /\ heap' = heap

C8_CallerMemoryNeverFreed == []C8_Inv /\ [][C8_Step]_vars

\* A buffer that owned no allocation was torn down next to a live
\* device-side release.
C8_Witness ==
    /\ last.op = "~Buffer"
    /\ Len(last.calls) = 2
    /\ last.calls[1].fn = "free_dev_buffer"
    /\ last.calls[2].fn = "free"
    /\ last.calls[2].ptr = NULL

\* ---- C9: the aligned host region of a self-allocated buffer lies inside
\* its calloc'd block: host is non-null, 32-byte aligned, at most 31 bytes
\* past the allocation base, and host + n does not pass the end of the
\* block; teardown frees the allocation base.
C9_AlignedInsideBlock ==
    /\ \A c \in Live :
          contents[c].allocation # NULL
             => LET p == contents[c]
                IN  /\ p.buf.host # NULL
                    /\ p.buf.host % 32 = 0
                    /\ p.allocation <= p.buf.host
                    /\ p.buf.host <= p.allocation + 31
                    /\ (last.op = "Buffer" /\ last.outcome = "ok")
                          => LET n == last.calls[1].arg - 32
                             IN  /\ last.calls[1].ptr = p.allocation
                                 /\ n >= 0
                                 /\ p.buf.host + n <= p.allocation + n + 32
                                 /\ p.buf.host + n <= p.allocation + last.calls[1].arg
    /\ last.op = "~Buffer"
          => /\ heap = {}
             /\ \A i \in CallsOf(last.calls, "free") :
                   last.calls[i].ptr \in CallocAddrs \cup {NULL}

\* A self-allocated buffer whose host pointer took the longest walk.
C9_Witness ==
    /\ defined(1)
    /\ contents[handles[1]].allocation # NULL
    /\ buf(1).host = contents[handles[1]].allocation + 31

\* ---- C10: checked_multiply returns true iff the exact product fits the
\* unsigned width, then stores the product; when it returns false the result
\* variable keeps its value, also when it is the first operand's variable;
\* checked_multiply_assert raises exactly when it returns false.
C10_CheckedMultiplyExact ==
    last.op = "checked_multiply"
       => LET a == last.args[1]
              c == last.args[2]
              before == last.args[3]
              ok == last.ret[1]
              after == last.ret[2]
          IN  /\ ok <=> (a * c < SizeMod)
              /\ ok => after = a * c
              /\ (ok /\ a = 0) => after = 0
              /\ ~ok => after = before
              /\ (last.outcome = "internal_error") <=> ~ok
              /\ (last.outcome = "none") <=> ok

\* An overflowing call whose result variable is the first operand.
C10_Witness ==
    /\ last.op = "checked_multiply"
    /\ last.args[4]
    /\ ~last.ret[1]
    /\ last.ret[2] = last.args[1]

====
